---- MODULE Spec2Model ----
(***************************************************************************)
(* A model of day3-CNN.py: the manual convolution layer MyConv2d, the      *)
(* manual batch normalisation layer MyBatchNorm2d, the network MyCNN and   *)
(* the training loop of the script.                                        *)
(*                                                                         *)
(* Tensors are functions over 0-based index ranges, as in the source.      *)
(* Arithmetic is exact: convolution inputs, weights and biases are         *)
(* integers, statistics are rationals <<numerator, denominator>> in lowest *)
(* terms, and the normalised activation gamma * (x - mean) / sqrt(var +    *)
(* eps) + beta is kept as the record [coef, var, eps, shift] of its four   *)
(* rational ingredients, coef = gamma * (x - mean) and shift = beta.       *)
(***************************************************************************)
EXTENDS Integers, Sequences, FiniteSets, TLC

VARIABLES conv, conv_call, bn, bn_call, bn_hist, fc, net_pc, net_x, net_in,
          loader, tl_pc, epoch_it, batch_it, loss, total_loss, ops, counts, printed,
          epoch_losses

\* The training script's variables and what it has done and printed so far.
loopVars == <<loader, tl_pc, epoch_it, batch_it, loss, total_loss, ops, counts, printed,
              epoch_losses>>

vars == <<conv, conv_call, bn, bn_call, bn_hist, fc, net_pc, net_x, net_in, loopVars>>

\* ------------------------------------------------------------------ bounds

\* Largest input height and width of a convolution call.
MaxIn == 3
\* Largest kernel size.
MaxK == 2
\* Largest padding.
MaxPad == 1
\* Largest stride.
MaxStride == 2
\* Largest batch of a batch-normalisation call.
MaxBatch == 2
\* Largest number of batch-normalisation calls in a run.
MaxCalls == 2
\* Largest seed of the weight patterns a network is constructed with.
MaxSeed == 1
\* Largest number of batches the training loader yields per epoch.
MaxLoader == 2
\* Largest loss value of a batch.
MaxLoss == 1

\* ----------------------------------------------------------------- helpers

\* The value of a call variable before any call: the empty sequence; after a
\* call it holds the one record of the latest call.
NoCall == <<>>

\* The value of a layer variable in a specification that has no such layer.
NoLayer == <<>>

Range(n) == 0 .. (n - 1)

Dim(t) == Cardinality(DOMAIN t)

\* x.shape of a 4-dimensional tensor (an empty extent ends the shape in zeros).
Shape4(t) ==
    IF Dim(t) = 0 THEN <<0, 0, 0, 0>>
    ELSE IF Dim(t[0]) = 0 THEN <<Dim(t), 0, 0, 0>>
    ELSE IF Dim(t[0][0]) = 0 THEN <<Dim(t), Dim(t[0]), 0, 0>>
    ELSE <<Dim(t), Dim(t[0]), Dim(t[0][0]), Dim(t[0][0][0])>>

Min(a, b) == IF a <= b THEN a ELSE b

\* The value v with its functions, and the functions inside them, tabulated
\* (an equality test enumerates both sides), so that a later read of an
\* element does not compute it again.
Tabulated(v) == IF v = v THEN v ELSE v

Abs(a) == IF a < 0 THEN -a ELSE a

RECURSIVE GCD(_, _)
GCD(a, b) == IF b = 0 THEN a ELSE GCD(b, a % b)

\* The rational n/d (d # 0) in lowest terms with a positive denominator.
Rat(n, d) ==
    LET g == GCD(Abs(n), Abs(d))
    IN  IF d < 0 THEN <<(-n) \div g, (-d) \div g>> ELSE <<n \div g, d \div g>>

RInt(n) == <<n, 1>>

RZero == <<0, 1>>

ROne == <<1, 1>>

RAdd(a, b) ==
    LET g == GCD(a[2], b[2])
    IN  Rat(a[1] * (b[2] \div g) + b[1] * (a[2] \div g), (a[2] \div g) * b[2])

RNeg(a) == <<-a[1], a[2]>>

RSub(a, b) == RAdd(a, RNeg(b))

RMul(a, b) ==
    LET g1 == GCD(Abs(a[1]), b[2])
        g2 == GCD(Abs(b[1]), a[2])
    IN  Rat((a[1] \div g1) * (b[1] \div g2), (a[2] \div g2) * (b[2] \div g1))

\* a / n for an integer n > 0.
RDivInt(a, n) == RMul(a, <<1, n>>)

RSign(a) == IF a[1] > 0 THEN 1 ELSE IF a[1] < 0 THEN -1 ELSE 0

RLess(a, b) == RSign(RSub(a, b)) < 0

\* ------------------------------------------------------------- MyConv2d

\* (batch_size, in_channels, out_channels) of the modelled calls.
ChannelConfigs == {<<1, 1, 1>>, <<2, 1, 2>>, <<1, 2, 1>>, <<1, 2, 2>>}

\* torch.zeros / a constant tensor of the given shape.
Full4(B, C, H, W, v) ==
    [b \in Range(B) |-> [c \in Range(C) |-> [i \in Range(H) |-> [j \in Range(W) |-> v]]]]

\* A tensor whose entries are pairwise distinct.
Ramp4(B, C, H, W) ==
    [b \in Range(B) |-> [c \in Range(C) |-> [i \in Range(H) |-> [j \in Range(W) |->
        1 + j + W * (i + H * (c + C * b))]]]]

\* The input batches of the modelled convolution calls.
ConvInputs(B, C, H, W) == {Full4(B, C, H, W, 2), Full4(B, C, H, W, -1), Ramp4(B, C, H, W)}

\* The weight tensors [out_channels, in_channels, k, k] of the modelled layers.
ConvWeights(OC, IC, k) == {Full4(OC, IC, k, k, 1), Ramp4(OC, IC, k, k)}

\* The bias vectors: zeros as constructed, or pairwise distinct values.
ConvBiases(OC) == {[oc \in Range(OC) |-> 0], [oc \in Range(OC) |-> 10 * (oc + 1)]}

\* MyConv2d.__init__: the layer object.
MyConv2d(weight, bias, kernel_size, stride, padding) ==
    [weight |-> weight, bias |-> bias, kernel_size |-> kernel_size,
     stride |-> stride, padding |-> padding]

\* The output extent with the quotient rounded up instead of down.
OutSizeCeil(n, k, p, stride) == (n + 2 * p - k + stride - 1) \div stride + 1

\* The output extent of the layer without padding.
OutSizeNoPadding(n, k, p, stride) == (n - k) \div stride + 1

\* out_H = (H + 2*p - k) // stride + 1
OutSize(n, k, p, stride) == (n + 2 * p - k) \div stride + 1

\* The padding step: a zero buffer with x copied to [p, p+H) x [p, p+W),
\* or x itself when padding is 0.
PadOnes(x, p) ==
    LET s == Shape4(x)
    IN  [b \in Range(s[1]) |-> [c \in Range(s[2]) |->
            [i \in Range(s[3] + 2 * p) |-> [j \in Range(s[4] + 2 * p) |->
                IF i >= p /\ i < p + s[3] /\ j >= p /\ j < p + s[4]
                THEN x[b][c][i - p][j - p] ELSE 1]]]]

Pad(x, p) ==
    IF p > 0
    THEN LET s == Shape4(x)
         IN  [b \in Range(s[1]) |-> [c \in Range(s[2]) |->
                 [i \in Range(s[3] + 2 * p) |-> [j \in Range(s[4] + 2 * p) |->
                     IF i >= p /\ i < p + s[3] /\ j >= p /\ j < p + s[4]
                     THEN x[b][c][i - p][j - p] ELSE 0]]]]
    ELSE x

\* The shape of the python slice plane[h:h+k, w:w+k] of a plane of extent
\* Hp x Wp: a slice is clipped to the extent, never an error.
RegionShape(Hp, Wp, h, w, k) ==
    <<Min(h + k, Hp) - Min(h, Hp), Min(w + k, Wp) - Min(w, Wp)>>

\* region = x_padded[b, ic, h:h+k, w:w+k]
Region(plane, h, w, k) ==
    LET rs == RegionShape(Dim(plane), Dim(plane[0]), h, w, k)
    IN  [di \in Range(rs[1]) |-> [dj \in Range(rs[2]) |-> plane[h + di][w + dj]]]

\* The extent of two broadcast extents, -1 when they do not broadcast.
BroadcastDim(a, b) ==
    IF a = b THEN a ELSE IF a = 1 THEN b ELSE IF b = 1 THEN a ELSE -1

\* Whether region * kernel is defined for a region of shape rs and a k x k kernel.
Broadcasts(rs, k) == BroadcastDim(rs[1], k) >= 0 /\ BroadcastDim(rs[2], k) >= 0

\* The index into an extent of size n that broadcasting reads for index i.
BIndex(n, i) == IF n = 1 THEN 0 ELSE i

RECURSIVE SumFlat(_, _, _, _, _)
\* The sum of the first n entries (row-major) of the R x C product region * kernel.
SumFlat(region, rs, kernel, C, n) ==
    IF n = 0 THEN 0
    ELSE LET i == (n - 1) \div C
             j == (n - 1) % C
         IN  SumFlat(region, rs, kernel, C, n - 1)
             + region[BIndex(rs[1], i)][BIndex(rs[2], j)]
               * kernel[BIndex(Dim(kernel), i)][BIndex(Dim(kernel), j)]

\* torch.sum(region * self.weight[oc, ic])
SumProduct(region, rs, kernel) ==
    LET R == BroadcastDim(rs[1], Dim(kernel))
        C == BroadcastDim(rs[2], Dim(kernel))
    IN  SumFlat(region, rs, kernel, C, R * C)

\* torch.sum(region * self.weight[oc, ic]) for the window of output (i, j).
WindowSum(plane, layer, kernel, i, j) ==
    SumProduct(Region(plane, i * layer.stride, j * layer.stride, layer.kernel_size),
               RegionShape(Dim(plane), Dim(plane[0]), i * layer.stride, j * layer.stride,
                           layer.kernel_size),
               kernel)

RECURSIVE AccumulateBiasPerChannel(_, _, _, _, _, _, _)
\* The accumulation with the bias added once per input channel.
AccumulateBiasPerChannel(xp, layer, b, oc, i, j, n) ==
    IF n = 0 THEN 0
    ELSE AccumulateBiasPerChannel(xp, layer, b, oc, i, j, n - 1)
         + WindowSum(xp[b][n - 1], layer, layer.weight[oc][n - 1], i, j)
         + layer.bias[oc]

RECURSIVE Accumulate(_, _, _, _, _, _, _)
\* output[b, oc, i, j] after the loop over the first n input channels:
\* output starts at zero and each channel adds its window's sum.
Accumulate(xp, layer, b, oc, i, j, n) ==
    IF n = 0 THEN 0
    ELSE Accumulate(xp, layer, b, oc, i, j, n - 1)
         + WindowSum(xp[b][n - 1], layer, layer.weight[oc][n - 1], i, j)

\* output[b, oc, i, j] when the loops are over: the accumulated sum, then
\* output[b, oc] += self.bias[oc].
OutputElementBiasInLoop(xp, layer, b, oc, i, j) ==
    AccumulateBiasPerChannel(xp, layer, b, oc, i, j, Dim(xp[b]))

OutputElement(xp, layer, b, oc, i, j) ==
    Accumulate(xp, layer, b, oc, i, j, Dim(xp[b])) + layer.bias[oc]

\* MyConv2d.forward: the padded buffer, the shape of every window read, and
\* the output; raised when torch raises (a negative output extent, or a
\* window that does not broadcast against the kernel).
MyConv2d_forward(layer, x) ==
    LET s     == Shape4(x)
        k     == layer.kernel_size
        p     == layer.padding
        out_H == OutSize(s[3], k, p, layer.stride)
        out_W == OutSize(s[4], k, p, layer.stride)
        x_padded == Pad(x, p)
        regions == [i \in Range(out_H) |-> [j \in Range(out_W) |->
                       RegionShape(s[3] + 2 * p, s[4] + 2 * p,
                                   i * layer.stride, j * layer.stride, k)]]
        raised == \/ out_H < 0
                  \/ out_W < 0
                  \/ \E i \in Range(out_H), j \in Range(out_W) : ~Broadcasts(regions[i][j], k)
    IN  [x        |-> x,
         x_padded |-> x_padded,
         regions  |-> regions,
         raised   |-> raised,
         output   |-> IF raised THEN <<>>
                      ELSE [b \in Range(s[1]) |-> [oc \in Range(Dim(layer.weight)) |->
                               [i \in Range(out_H) |-> [j \in Range(out_W) |->
                                   OutputElement(x_padded, layer, b, oc, i, j)]]]]]

\* -------------------------------------------------------- MyBatchNorm2d

\* eps=1e-5, momentum=0.1: the constructor's defaults.
DefaultEps == <<1, 100000>>

DefaultMomentum == <<1, 10>>

\* MyBatchNorm2d.__init__: gamma ones, beta zeros, running_mean zeros,
\* running_var ones; a module is constructed in training mode.
MyBatchNorm2d(num_features) ==
    [eps          |-> DefaultEps,
     momentum     |-> DefaultMomentum,
     gamma        |-> [c \in Range(num_features) |-> ROne],
     beta         |-> [c \in Range(num_features) |-> RZero],
     running_mean |-> [c \in Range(num_features) |-> RZero],
     running_var  |-> [c \in Range(num_features) |-> ROne],
     training     |-> TRUE]

RECURSIVE SumCols(_, _)
\* The sum of the first n entries of a row.
SumCols(row, n) == IF n = 0 THEN 0 ELSE SumCols(row, n - 1) + row[n - 1]

RECURSIVE SumPlane(_, _)
\* The sum of the first n rows of a plane.
SumPlane(plane, n) ==
    IF n = 0 THEN 0 ELSE SumPlane(plane, n - 1) + SumCols(plane[n - 1], Dim(plane[n - 1]))

RECURSIVE SumChannel(_, _, _)
\* The sum of channel c over the first n images of the batch.
SumChannel(x, c, n) ==
    IF n = 0 THEN 0 ELSE SumChannel(x, c, n - 1) + SumPlane(x[n - 1][c], Dim(x[n - 1][c]))

\* The number of values of one channel: batch * height * width.
ChannelCount(x) == Dim(x) * Dim(x[0][0]) * Dim(x[0][0][0])

\* x.mean([0, 2, 3])[c]
Mean(x, c) == Rat(SumChannel(x, c, Dim(x)), ChannelCount(x))

RECURSIVE SumSqDevCols(_, _, _, _)
\* The sum of (N*v - S)^2 over the first n entries v of a row.
SumSqDevCols(row, S, N, n) ==
    IF n = 0 THEN 0
    ELSE SumSqDevCols(row, S, N, n - 1) + (N * row[n - 1] - S) * (N * row[n - 1] - S)

RECURSIVE SumSqDevPlane(_, _, _, _)
SumSqDevPlane(plane, S, N, n) ==
    IF n = 0 THEN 0
    ELSE SumSqDevPlane(plane, S, N, n - 1)
         + SumSqDevCols(plane[n - 1], S, N, Dim(plane[n - 1]))

RECURSIVE SumSqDev(_, _, _, _, _)
\* N^2 times the sum of (v - S/N)^2 over channel c of the first n images.
SumSqDev(x, c, S, N, n) ==
    IF n = 0 THEN 0
    ELSE SumSqDev(x, c, S, N, n - 1) + SumSqDevPlane(x[n - 1][c], S, N, Dim(x[n - 1][c]))

\* x.var([0, 2, 3], unbiased=False)[c]: the mean of the squared deviations
\* from the mean S/N, that is the sum of (N*v - S)^2 over N^3.
Var(x, c) ==
    LET N == ChannelCount(x)
        S == SumChannel(x, c, Dim(x))
    IN  Rat(SumSqDev(x, c, S, N, Dim(x)), N * N * N)

\* The moving average with the two weights exchanged.
EmaSwapped(momentum, old, stat) ==
    RAdd(RMul(momentum, old), RMul(RSub(ROne, momentum), stat))

\* (1 - self.momentum) * old + self.momentum * stat
Ema(momentum, old, stat) ==
    RAdd(RMul(RSub(ROne, momentum), old), RMul(momentum, stat))

\* The statistics after a call that updates them in either mode.
RunningAlwaysUpdated(self, x) ==
    [mean |-> [c \in DOMAIN self.gamma |-> Ema(self.momentum, self.running_mean[c], Mean(x, c))],
     var  |-> [c \in DOMAIN self.gamma |-> Ema(self.momentum, self.running_var[c], Var(x, c))]]

\* The running statistics after forward(x): the moving averages in training
\* mode, the stored values otherwise.
RunningAfter(self, x) ==
    IF self.training
    THEN [mean |-> [c \in DOMAIN self.gamma |->
                       Ema(self.momentum, self.running_mean[c], Mean(x, c))],
          var  |-> [c \in DOMAIN self.gamma |->
                       Ema(self.momentum, self.running_var[c], Var(x, c))]]
    ELSE [mean |-> self.running_mean, var |-> self.running_var]

\* The batch statistics in either mode.
StatsAlwaysBatch(self, x) ==
    [mean |-> [c \in DOMAIN self.gamma |-> Mean(x, c)],
     var  |-> [c \in DOMAIN self.gamma |-> Var(x, c)]]

\* The running statistics in either mode (those before the call's update).
StatsAlwaysRunning(self, x) ==
    [mean |-> self.running_mean, var |-> self.running_var]

\* mean and var as forward(x) normalises with them: the batch's in training
\* mode, the stored running ones otherwise.
StatsUsed(self, x) ==
    IF self.training
    THEN [mean |-> [c \in DOMAIN self.gamma |-> Mean(x, c)],
          var  |-> [c \in DOMAIN self.gamma |-> Var(x, c)]]
    ELSE [mean |-> self.running_mean, var |-> self.running_var]

\* The real number coef / sqrt(var + eps) + shift, by its rational ingredients.
Activation(coef, var, eps, shift) ==
    [coef |-> coef, var |-> var, eps |-> eps, shift |-> shift]

\* gamma * (x - mean) / sqrt(var + eps) + beta
Normalize(xv, mean, var, eps, gamma, beta) ==
    Activation(RMul(gamma, RSub(RInt(xv), mean)), var, eps, beta)

\* MyBatchNorm2d.forward: the module after the call and the output.
MyBatchNorm2d_forward(self, x) ==
    LET used  == Tabulated(StatsUsed(self, x))
        after == RunningAfter(self, x)
    IN  [self   |-> [self EXCEPT !.running_mean = after.mean, !.running_var = after.var],
         output |-> [b \in DOMAIN x |-> [c \in DOMAIN x[b] |->
                        [i \in DOMAIN x[b][c] |-> [j \in DOMAIN x[b][c][i] |->
                            Normalize(x[b][c][i][j], used.mean[c], used.var[c], self.eps,
                                      self.gamma[c], self.beta[c])]]]]]

\* The two images [channel, height, width] of the modelled batches: two
\* channels of one row and two columns, with different means and variances.
BNImage(k) ==
    [c \in Range(2) |-> [i \in Range(1) |-> [j \in Range(2) |->
        IF k = 0 THEN (IF c = 0 THEN 2 * j ELSE 1)
                 ELSE (IF c = 0 THEN 1 + 2 * j ELSE 6 * j)]]]

\* The batches [batch, channel, height, width]: 1 .. MaxBatch images, the
\* two images alternating from either one.
BNInputs ==
    {[b \in Range(n) |-> BNImage((b + first) % 2)] : n \in 1 .. MaxBatch, first \in 0 .. 1}

\* Parameter values an optimizer step leaves behind.
TrainedGamma == [c \in Range(2) |-> IF c = 0 THEN <<2, 1>> ELSE <<-1, 2>>]

TrainedBeta == [c \in Range(2) |-> IF c = 0 THEN <<1, 1>> ELSE <<-3, 1>>]

\* ------------------------------------------------------------------ MyCNN

\* MyConv2d(1, 8, 3): in_channels, out_channels, kernel_size.
NetInChannels == 1

NetOutChannels == 8

NetKernelSize == 3

\* stride=2, padding=1: the defaults of MyConv2d.__init__.
DefaultStride == 2

DefaultPadding == 1

\* nn.MaxPool2d(2)
PoolSize == 2

\* nn.Linear(8 * 7 * 7, 10)
FcInFeatures == 8 * 7 * 7

FcOutFeatures == 10

\* The extent of an MNIST image.
ImageSize == 28

\* The sign of the real number coef / sqrt(var + eps) + shift (var + eps > 0).
ActSign(a) ==
    LET sc == RSign(a.coef)
        ss == RSign(a.shift)
    IN  IF sc = 0 THEN ss
        ELSE IF ss = 0 \/ ss = sc THEN sc
        ELSE LET c2 == RMul(a.coef, a.coef)
                 s2 == RMul(RMul(a.shift, a.shift), RAdd(a.var, a.eps))
             IN  IF RLess(s2, c2) THEN sc ELSE IF RLess(c2, s2) THEN ss ELSE 0

\* F.relu on one element: the element when positive, zero otherwise.
Relu(a) == IF ActSign(a) > 0 THEN a ELSE Activation(RZero, a.var, a.eps, RZero)

\* max(a, b) of two elements of one channel (one var + eps).
Max2(a, b) ==
    IF ActSign(Activation(RSub(b.coef, a.coef), a.var, a.eps, RSub(b.shift, a.shift))) > 0
    THEN b ELSE a

RECURSIVE MaxWindow(_, _, _, _, _)
\* The maximum of the first n elements (row-major) of the size x size window at (i, j).
MaxWindow(plane, i, j, size, n) ==
    LET e == plane[i * size + ((n - 1) \div size)][j * size + ((n - 1) % size)]
    IN  IF n = 1 THEN e ELSE Max2(MaxWindow(plane, i, j, size, n - 1), e)

\* nn.MaxPool2d(size): stride size, no padding, floor mode.
MaxPool2d(x, size) ==
    [b \in DOMAIN x |-> [c \in DOMAIN x[b] |->
        [i \in Range(Dim(x[b][c]) \div size) |->
            [j \in Range(Dim(x[b][c][0]) \div size) |->
                MaxWindow(x[b][c], i, j, size, size * size)]]]]

\* x.view(x.size(0), -1): each image's elements in row-major order, with
\* the channel of each.
View(x) ==
    LET C == Dim(x[0])
        H == Dim(x[0][0])
        W == Dim(x[0][0][0])
    IN  [b \in DOMAIN x |-> [k \in Range(C * H * W) |->
            [channel |-> k \div (H * W),
             value   |-> x[b][k \div (H * W)][(k % (H * W)) \div W][k % W]]]]

RECURSIVE DotShift(_, _, _, _)
\* The rational part of the terms lo .. hi-1 of weight . flat.
DotShift(w, flat, lo, hi) ==
    IF hi <= lo THEN RZero
    ELSE IF hi = lo + 1 THEN RMul(RInt(w[lo]), flat[lo].value.shift)
    ELSE RAdd(DotShift(w, flat, lo, (lo + hi) \div 2), DotShift(w, flat, (lo + hi) \div 2, hi))

RECURSIVE DotCoef(_, _, _, _, _)
\* The coefficient of 1 / sqrt(var_c + eps) in the terms lo .. hi-1 of weight . flat.
DotCoef(w, flat, c, lo, hi) ==
    IF hi <= lo THEN RZero
    ELSE IF hi = lo + 1
         THEN (IF flat[lo].channel = c THEN RMul(RInt(w[lo]), flat[lo].value.coef) ELSE RZero)
    ELSE RAdd(DotCoef(w, flat, c, lo, (lo + hi) \div 2), DotCoef(w, flat, c, (lo + hi) \div 2, hi))

\* One logit: the real number rat + sum over channels c of surd[c] / sqrt(var_c + eps).
Logit(rat, surd) == [rat |-> rat, surd |-> surd]

\* nn.Linear: flat @ weight.T + bias, for a flat of in_features columns.
Linear(layer, flat, channels) ==
    LET n == Dim(layer.weight[0])
    IN  [b \in DOMAIN flat |-> [o \in DOMAIN layer.weight |->
            Logit(RAdd(DotShift(layer.weight[o], flat[b], 0, n), RInt(layer.bias[o])),
                  [c \in channels |-> DotCoef(layer.weight[o], flat[b], c, 0, n)])]]

\* The layers of a network with conv stride 1 and padding 0.
MyCNNStrideOne(conv_weight, fc_weight, fc_bias) ==
    [conv |-> MyConv2d(conv_weight, [oc \in Range(NetOutChannels) |-> 0], NetKernelSize, 1, 0),
     bn   |-> MyBatchNorm2d(NetOutChannels),
     fc   |-> [weight |-> fc_weight, bias |-> fc_bias]]

\* MyCNN.__init__: the conv layer with the default stride and padding and a
\* zero bias, the batch normalisation of its channels, the linear layer.
MyCNN(conv_weight, fc_weight, fc_bias) ==
    [conv |-> MyConv2d(conv_weight, [oc \in Range(NetOutChannels) |-> 0], NetKernelSize,
                       DefaultStride, DefaultPadding),
     bn   |-> MyBatchNorm2d(NetOutChannels),
     fc   |-> [weight |-> fc_weight, bias |-> fc_bias]]

\* F.relu on a batch.
ReluAll(x) ==
    [b \in DOMAIN x |-> [c \in DOMAIN x[b] |-> [i \in DOMAIN x[b][c] |->
        [j \in DOMAIN x[b][c][i] |-> Relu(x[b][c][i][j])]]]]

\* The conv weights [8, 1, 3, 3] a network is constructed with, by seed:
\* values in -1 .. 1, not all zero.
NetConvWeight(seed) ==
    [oc \in Range(NetOutChannels) |-> [ic \in Range(NetInChannels) |->
        [di \in Range(NetKernelSize) |-> [dj \in Range(NetKernelSize) |->
            ((oc + 2 * di + dj + seed) % 3) - 1]]]]

\* The linear layer's weights [10, 392], by seed: values in -2 .. 2.
NetFcWeight(seed) ==
    [o \in Range(FcOutFeatures) |-> [k \in Range(FcInFeatures) |->
        ((o + k * (seed + 1)) % 5) - 2]]

\* The linear layer's bias [10], by seed: pairwise distinct values.
NetFcBias(seed) == [o \in Range(FcOutFeatures) |-> o - seed]

\* The images [1, 28, 28] of the modelled batches: the zero image, one lit
\* pixel, a lit 2 x 2 block at the corner.
NetImage(k) ==
    [c \in Range(NetInChannels) |-> [i \in Range(ImageSize) |-> [j \in Range(ImageSize) |->
        IF k = 0 THEN 0
        ELSE IF k = 1 THEN (IF i = 5 /\ j = 8 THEN 1 ELSE 0)
        ELSE (IF i < 2 /\ j < 2 THEN 1 ELSE 0)]]]

\* The batches of the modelled calls: one image, or the zero image twice, or
\* the zero image and another.
NetInputs ==
    {[b \in Range(1) |-> NetImage(k)] : k \in 0 .. 2}
    \cup {[b \in Range(2) |-> IF b = 0 THEN NetImage(0) ELSE NetImage(k)] : k \in 0 .. 1}

\* The training script has not started.
LoopIdle ==
    /\ loader = 0
    /\ tl_pc = "idle"
    /\ epoch_it = 0
    /\ batch_it = 0
    /\ loss = 0
    /\ total_loss = 0
    /\ ops = <<>>
    /\ counts = [train |-> 0, step |-> 0, loss_prints |-> 0, epoch_prints |-> 0]
    /\ printed = NoCall
    /\ epoch_losses = <<>>

\* The layers and inputs of the convolution specification: every
\* configuration with in + 2p >= k for both extents.
ConvInit ==
    /\ \E cfg \in ChannelConfigs, k \in 1 .. MaxK, p \in 0 .. MaxPad, s \in 1 .. MaxStride :
         \E w \in ConvWeights(cfg[3], cfg[2], k), bias \in ConvBiases(cfg[3]) :
            conv = MyConv2d(w, bias, k, s, p)
    /\ conv_call = NoCall
    /\ bn = MyBatchNorm2d(2)
    /\ bn_call = NoCall
    /\ bn_hist = <<>>
    /\ fc = NoLayer
    /\ net_pc = "idle"
    /\ net_x = NoCall
    /\ net_in = NoCall
    /\ LoopIdle

\* A call self.conv(x) on a batch the layer accepts.
ConvForward ==
    /\ conv_call = NoCall
    /\ \E H \in 1 .. MaxIn, W \in 1 .. MaxIn :
         /\ H + 2 * conv.padding >= conv.kernel_size
         /\ W + 2 * conv.padding >= conv.kernel_size
         /\ \E cfg \in ChannelConfigs :
              /\ cfg[2] = Dim(conv.weight[0])
              /\ \E x \in ConvInputs(cfg[1], cfg[2], H, W) :
                    conv_call' = <<MyConv2d_forward(conv, x)>>
    /\ UNCHANGED <<conv, bn, bn_call, bn_hist, fc, net_pc, net_x, net_in, loopVars>>

BNInit ==
    /\ conv = MyConv2d(Full4(1, 1, 1, 1, 1), [oc \in Range(1) |-> 0], 1, 1, 0)
    /\ conv_call = NoCall
    /\ bn = MyBatchNorm2d(2)
    /\ bn_call = NoCall
    /\ bn_hist = <<>>
    /\ fc = NoLayer
    /\ net_pc = "idle"
    /\ net_x = NoCall
    /\ net_in = NoCall
    /\ LoopIdle

\* model.train()
BNTrain ==
    /\ ~bn.training
    /\ bn' = [bn EXCEPT !.training = TRUE]
    /\ UNCHANGED <<conv, conv_call, bn_call, bn_hist, fc, net_pc, net_x, net_in, loopVars>>

\* model.eval()
BNEval ==
    /\ bn.training
    /\ bn' = [bn EXCEPT !.training = FALSE]
    /\ UNCHANGED <<conv, conv_call, bn_call, bn_hist, fc, net_pc, net_x, net_in, loopVars>>

\* optimizer.step(): gamma and beta move away from their constructed values.
BNOptimizerStep ==
    /\ bn_hist = <<>>
    /\ bn.gamma # TrainedGamma
    /\ bn' = [bn EXCEPT !.gamma = TrainedGamma, !.beta = TrainedBeta]
    /\ UNCHANGED <<conv, conv_call, bn_call, bn_hist, fc, net_pc, net_x, net_in, loopVars>>

\* A call self.bn(x).
BNForward ==
    /\ Len(bn_hist) < MaxCalls
    /\ \E x \in BNInputs :
         LET r == MyBatchNorm2d_forward(bn, x)
         IN  /\ bn' = r.self
             /\ bn_call' = <<[before |-> bn, x |-> x, output |-> r.output, after |-> r.self]>>
             /\ bn_hist' = Append(bn_hist, [training |-> bn.training, x |-> x])
    /\ UNCHANGED <<conv, conv_call, fc, net_pc, net_x, net_in, loopVars>>

BNNext ==
    \/ BNTrain
    \/ BNEval
    \/ BNOptimizerStep
    \/ BNForward

\* model = MyCNN(): the layers as constructed, with the weights of a seed.
NetInit ==
    /\ \E seed \in 0 .. MaxSeed :
          LET model == MyCNN(NetConvWeight(seed), NetFcWeight(seed), NetFcBias(seed))
          IN  /\ conv = model.conv
              /\ bn = model.bn
              /\ fc = model.fc
    /\ conv_call = NoCall
    /\ bn_call = NoCall
    /\ bn_hist = <<>>
    /\ net_pc = "idle"
    /\ net_x = NoCall
    /\ net_in = NoCall
    /\ LoopIdle

\* model.train()
NetTrain ==
    /\ net_pc = "idle"
    /\ ~bn.training
    /\ bn' = [bn EXCEPT !.training = TRUE]
    /\ UNCHANGED <<conv, conv_call, bn_call, bn_hist, fc, net_pc, net_x, net_in, loopVars>>

\* model.eval()
NetEval ==
    /\ net_pc = "idle"
    /\ bn.training
    /\ bn' = [bn EXCEPT !.training = FALSE]
    /\ UNCHANGED <<conv, conv_call, bn_call, bn_hist, fc, net_pc, net_x, net_in, loopVars>>

\* out = model(x): MyCNN.forward is entered with the batch x.
NetCall ==
    /\ net_pc = "idle"
    /\ \E x \in NetInputs :
          /\ net_in' = x
          /\ net_x' = x
    /\ net_pc' = "conv"
    /\ UNCHANGED <<conv, conv_call, bn, bn_call, bn_hist, fc, loopVars>>

\* x = self.conv(x)
NetConv ==
    /\ net_pc = "conv"
    /\ LET r == MyConv2d_forward(conv, net_x)
       IN  /\ net_x' = r.output
           /\ net_pc' = IF r.raised THEN "raised" ELSE "bn"
    /\ UNCHANGED <<conv, conv_call, bn, bn_call, bn_hist, fc, net_in, loopVars>>

\* x = self.bn(x)
NetBn ==
    /\ net_pc = "bn"
    /\ LET r == MyBatchNorm2d_forward(bn, net_x)
       IN  /\ net_x' = r.output
           /\ bn' = r.self
    /\ net_pc' = "relu"
    /\ UNCHANGED <<conv, conv_call, bn_call, bn_hist, fc, net_in, loopVars>>

\* x = F.relu(x)
NetRelu ==
    /\ net_pc = "relu"
    /\ net_x' = ReluAll(net_x)
    /\ net_pc' = "pool"
    /\ UNCHANGED <<conv, conv_call, bn, bn_call, bn_hist, fc, net_in, loopVars>>

\* x = self.pool(x)
NetPool ==
    /\ net_pc = "pool"
    /\ net_x' = MaxPool2d(net_x, PoolSize)
    /\ net_pc' = "view"
    /\ UNCHANGED <<conv, conv_call, bn, bn_call, bn_hist, fc, net_in, loopVars>>

\* x = x.view(x.size(0), -1)
NetView ==
    /\ net_pc = "view"
    /\ net_x' = View(net_x)
    /\ net_pc' = "fc"
    /\ UNCHANGED <<conv, conv_call, bn, bn_call, bn_hist, fc, net_in, loopVars>>

\* x = self.fc(x); return x.  The linear layer raises when the flattened
\* width is not its in_features.
NetFc ==
    /\ net_pc = "fc"
    /\ IF Dim(net_x[0]) = Dim(fc.weight[0])
       THEN /\ net_x' = Linear(fc, net_x, DOMAIN bn.gamma)
            /\ net_pc' = "done"
       ELSE /\ net_x' = net_x
            /\ net_pc' = "raised"
    /\ UNCHANGED <<conv, conv_call, bn, bn_call, bn_hist, fc, net_in, loopVars>>

NetNext ==
    \/ NetTrain
    \/ NetEval
    \/ NetCall
    \/ NetConv
    \/ NetBn
    \/ NetRelu
    \/ NetPool
    \/ NetView
    \/ NetFc

\* ------------------------------------------------------- the training loop

\* range(50): the number of epochs of the training loop.
Epochs == 50

\* The variables the training loop leaves alone, the module mode apart.
layerVars == <<conv, conv_call, bn_call, bn_hist, fc, net_pc, net_x, net_in>>

\* The operations of one iteration of the batch loop, in program order.
BatchOps == <<"forward", "loss", "print", "zero_grad", "backward", "step", "add">>

\* The script up to the training loop: the model is constructed and the
\* loader yields `loader` batches per epoch.
TrainInit ==
    /\ LET model == MyCNN(NetConvWeight(0), NetFcWeight(0), NetFcBias(0))
       IN  /\ conv = model.conv
           /\ bn = model.bn
           /\ fc = model.fc
    /\ conv_call = NoCall
    /\ bn_call = NoCall
    /\ bn_hist = <<>>
    /\ net_pc = "idle"
    /\ net_x = NoCall
    /\ net_in = NoCall
    /\ loader \in 0 .. MaxLoader
    /\ tl_pc = "for_epoch"
    /\ epoch_it = 0
    /\ batch_it = 0
    /\ loss = 0
    /\ total_loss = 0
    /\ ops = <<>>
    /\ counts = [train |-> 0, step |-> 0, loss_prints |-> 0, epoch_prints |-> 0]
    /\ printed = NoCall
    /\ epoch_losses = <<>>

\* for epoch in range(50): the next epoch, or the end of the script.
\* epoch_it counts the values range(50) has yielded; epoch = epoch_it - 1.
ForEpoch ==
    /\ tl_pc = "for_epoch"
    /\ IF epoch_it < Epochs
       THEN /\ epoch_it' = epoch_it + 1
            /\ epoch_losses' = <<>>
            /\ tl_pc' = "train"
       ELSE /\ tl_pc' = "done"
            /\ UNCHANGED <<epoch_it, epoch_losses>>
    /\ UNCHANGED <<layerVars, bn, loader, batch_it, loss, total_loss, ops, counts, printed>>

\* model.train()
ModelTrain ==
    /\ tl_pc = "train"
    /\ bn' = [bn EXCEPT !.training = TRUE]
    /\ counts' = [counts EXCEPT !.train = @ + 1]
    /\ tl_pc' = "reset"
    /\ UNCHANGED <<layerVars, loader, epoch_it, batch_it, loss, total_loss, ops, printed,
                   epoch_losses>>

\* The loop without line 140: the accumulator is carried over the epochs.
KeepTotal ==
    /\ tl_pc = "reset"
    /\ tl_pc' = "iter"
    /\ UNCHANGED <<layerVars, bn, loader, epoch_it, batch_it, loss, total_loss, ops, counts,
                   printed, epoch_losses>>

\* total_loss = 0
ResetTotal ==
    /\ tl_pc = "reset"
    /\ total_loss' = 0
    /\ tl_pc' = "iter"
    /\ UNCHANGED <<layerVars, bn, loader, epoch_it, batch_it, loss, ops, counts, printed,
                   epoch_losses>>

\* for x, y in train_loader: a new iterator over the loader.
LoaderIter ==
    /\ tl_pc = "iter"
    /\ batch_it' = 0
    /\ tl_pc' = "for_batch"
    /\ UNCHANGED <<layerVars, bn, loader, epoch_it, loss, total_loss, ops, counts, printed,
                   epoch_losses>>

\* for x, y in train_loader: the next batch, or the end of the epoch.
ForBatch ==
    /\ tl_pc = "for_batch"
    /\ IF batch_it < loader
       THEN /\ batch_it' = batch_it + 1
            /\ ops' = <<>>
            /\ tl_pc' = "to_device"
       ELSE /\ tl_pc' = "print_epoch"
            /\ UNCHANGED <<batch_it, ops>>
    /\ UNCHANGED <<layerVars, bn, loader, epoch_it, loss, total_loss, counts, printed,
                   epoch_losses>>

\* x, y = x.to(device), y.to(device)
ToDevice ==
    /\ tl_pc = "to_device"
    /\ tl_pc' = "forward"
    /\ UNCHANGED <<layerVars, bn, loader, epoch_it, batch_it, loss, total_loss, ops, counts,
                   printed, epoch_losses>>

\* out = model(x): the call is recorded; what it computes is MyCNN.forward.
Forward ==
    /\ tl_pc = "forward"
    /\ ops' = Append(ops, "forward")
    /\ tl_pc' = "loss"
    /\ UNCHANGED <<layerVars, bn, loader, epoch_it, batch_it, loss, total_loss, counts,
                   printed, epoch_losses>>

\* loss = loss_fn(out, y): any loss value.
ComputeLoss ==
    /\ tl_pc = "loss"
    /\ \E v \in 0 .. MaxLoss : loss' = v
    /\ ops' = Append(ops, "loss")
    /\ tl_pc' = "print"
    /\ UNCHANGED <<layerVars, bn, loader, epoch_it, batch_it, total_loss, counts, printed,
                   epoch_losses>>

\* print(loss)
PrintLoss ==
    /\ tl_pc = "print"
    /\ printed' = <<[kind |-> "loss", epoch |-> epoch_it, value |-> loss]>>
    /\ counts' = [counts EXCEPT !.loss_prints = @ + 1]
    /\ ops' = Append(ops, "print")
    /\ tl_pc' = "zero_grad"
    /\ UNCHANGED <<layerVars, bn, loader, epoch_it, batch_it, loss, total_loss, epoch_losses>>

\* optimizer.zero_grad()
ZeroGrad ==
    /\ tl_pc = "zero_grad"
    /\ ops' = Append(ops, "zero_grad")
    /\ tl_pc' = "backward"
    /\ UNCHANGED <<layerVars, bn, loader, epoch_it, batch_it, loss, total_loss, counts,
                   printed, epoch_losses>>

\* loss.backward()
Backward ==
    /\ tl_pc = "backward"
    /\ ops' = Append(ops, "backward")
    /\ tl_pc' = "step"
    /\ UNCHANGED <<layerVars, bn, loader, epoch_it, batch_it, loss, total_loss, counts,
                   printed, epoch_losses>>

\* optimizer.step(): one parameter update.
OptimizerStep ==
    /\ tl_pc = "step"
    /\ counts' = [counts EXCEPT !.step = @ + 1]
    /\ ops' = Append(ops, "step")
    /\ tl_pc' = "add"
    /\ UNCHANGED <<layerVars, bn, loader, epoch_it, batch_it, loss, total_loss, printed,
                   epoch_losses>>

\* total_loss += loss.item(); epoch_losses records the losses of the epoch.
AddLoss ==
    /\ tl_pc = "add"
    /\ total_loss' = total_loss + loss
    /\ epoch_losses' = Append(epoch_losses, loss)
    /\ ops' = Append(ops, "add")
    /\ tl_pc' = "for_batch"
    /\ UNCHANGED <<layerVars, bn, loader, epoch_it, batch_it, loss, counts, printed>>

\* print(f"Epoch {epoch + 1}, Loss: {total_loss:.4f}")
PrintEpoch ==
    /\ tl_pc = "print_epoch"
    /\ printed' = <<[kind |-> "epoch", epoch |-> epoch_it, value |-> total_loss]>>
    /\ counts' = [counts EXCEPT !.epoch_prints = @ + 1]
    /\ tl_pc' = "for_epoch"
    /\ UNCHANGED <<layerVars, bn, loader, epoch_it, batch_it, loss, total_loss, ops,
                   epoch_losses>>

TrainNext ==
    \/ ForEpoch
    \/ ModelTrain
    \/ ResetTotal
    \/ LoaderIter
    \/ ForBatch
    \/ ToDevice
    \/ Forward
    \/ ComputeLoss
    \/ PrintLoss
    \/ ZeroGrad
    \/ Backward
    \/ OptimizerStep
    \/ AddLoss
    \/ PrintEpoch

\* -------------------------------------------------------- specifications

ConvNext == ConvForward

SpecConv == ConvInit /\ [][ConvNext]_vars

SpecBN == BNInit /\ [][BNNext]_vars

SpecNet == NetInit /\ [][NetNext]_vars

\* The script runs one statement after another and every statement returns.
SpecTrain == TrainInit /\ [][TrainNext]_vars /\ WF_vars(TrainNext)

\* ------------------------------------------------------- claims: MyConv2d

\* The layer's configuration and the call's input extents.
CallH(c) == Shape4(c.x)[3]

CallW(c) == Shape4(c.x)[4]

\* out = floor(num / stride) + 1, stated by the two bounds that define a floor.
IsFloorPlusOne(out, num, stride) ==
    /\ (out - 1) * stride <= num
    /\ num < out * stride

\* C1: for every input extent, kernel size k, padding p >= 0 and stride s >= 1
\* with in + 2p >= k, forward returns an output whose height and width each
\* equal floor((in + 2p - k)/s) + 1, computed independently for H and W, with
\* the batch extent unchanged and out_channels channels.
C1_OutputShape ==
    \A n \in 1 .. Len(conv_call) :
        LET c  == conv_call[n]
            so == Shape4(c.output)
        IN  /\ ~c.raised
            /\ so[1] = Shape4(c.x)[1]
            /\ so[2] = Dim(conv.weight)
            /\ IsFloorPlusOne(so[3], CallH(c) + 2 * conv.padding - conv.kernel_size, conv.stride)
            /\ IsFloorPlusOne(so[4], CallW(c) + 2 * conv.padding - conv.kernel_size, conv.stride)

\* A call with padding, a stride that does not divide the extent, and
\* different output height and width.
C1_Witness ==
    \E n \in 1 .. Len(conv_call) :
        LET c  == conv_call[n]
            so == Shape4(c.output)
        IN  /\ conv.padding >= 1
            /\ conv.stride >= 2
            /\ (CallH(c) + 2 * conv.padding - conv.kernel_size) % conv.stride # 0
            /\ so[3] # so[4]
            /\ so[2] = 2

\* The padded input at row r, column c: x inside the border, zero in it.
PaddedAt(x, p, b, ic, r, c) ==
    IF r - p \in DOMAIN x[b][ic] /\ c - p \in DOMAIN x[b][ic][0]
    THEN x[b][ic][r - p][c - p] ELSE 0

RECURSIVE ExpectedSum(_, _, _, _, _, _, _)
\* The sum over the first n triples (ic, di, dj), in row-major order, of
\* x_padded[b, ic, i*stride + di, j*stride + dj] * weight[oc, ic, di, dj].
ExpectedSum(x, layer, b, oc, i, j, n) ==
    IF n = 0 THEN 0
    ELSE LET k  == layer.kernel_size
             ic == (n - 1) \div (k * k)
             di == ((n - 1) % (k * k)) \div k
             dj == (n - 1) % k
         IN  ExpectedSum(x, layer, b, oc, i, j, n - 1)
             + PaddedAt(x, layer.padding, b, ic, i * layer.stride + di, j * layer.stride + dj)
               * layer.weight[oc][ic][di][dj]

\* C2: output[b, oc, i, j] is the sum over all input channels and kernel
\* offsets of x_padded[b, ic, i*stride + di, j*stride + dj] * weight[oc, ic, di, dj],
\* plus bias[oc] once; with padding 0, stride 1, an all-ones kernel and a
\* constant input v every output element is v * k * k * in_channels + bias[oc].
C2_OutputValue ==
    \A n \in 1 .. Len(conv_call) :
        LET c  == conv_call[n]
            k  == conv.kernel_size
            IC == Dim(conv.weight[0])
            sx == Shape4(c.x)
            v  == c.x[0][0][0][0]
        IN  /\ ~c.raised
            /\ \A b \in DOMAIN c.output : \A oc \in DOMAIN c.output[b] :
               \A i \in DOMAIN c.output[b][oc] : \A j \in DOMAIN c.output[b][oc][i] :
                  /\ c.output[b][oc][i][j]
                       = ExpectedSum(c.x, conv, b, oc, i, j, IC * k * k) + conv.bias[oc]
                  /\ (/\ conv.padding = 0
                      /\ conv.stride = 1
                      /\ conv.weight = Full4(Dim(conv.weight), IC, k, k, 1)
                      /\ c.x = Full4(sx[1], sx[2], sx[3], sx[4], v))
                     => c.output[b][oc][i][j] = v * k * k * IC + conv.bias[oc]

\* A call on two input channels with a non-zero bias and pairwise distinct
\* weights and inputs, with padding and a stride above 1.
C2_Witness ==
    \E n \in 1 .. Len(conv_call) :
        LET c == conv_call[n]
        IN  /\ Dim(conv.weight[0]) = 2
            /\ conv.bias[0] # 0
            /\ conv.weight[0][0][0][0] # conv.weight[0][1][0][0]
            /\ c.x[0][0][0][0] # c.x[0][1][0][0]
            /\ conv.padding >= 1 /\ conv.stride >= 2 /\ conv.kernel_size >= 2
            /\ Shape4(c.output)[3] >= 2
            /\ c.output[0][0][0][0] # c.output[0][0][1][0]

\* C10: every window read lies inside the padded input (i*stride + k <= H + 2p
\* and j*stride + k <= W + 2p, so it has k x k elements); the padded buffer
\* holds x at rows and columns p .. p+in-1 and zero in the p border rows and
\* columns on each side, and with padding 0 the buffer is the input.
C10_WindowsInside ==
    \A n \in 1 .. Len(conv_call) :
        LET c  == conv_call[n]
            k  == conv.kernel_size
            p  == conv.padding
            sx == Shape4(c.x)
        IN  /\ ~c.raised
            /\ \A i \in DOMAIN c.regions : \A j \in DOMAIN c.regions[i] :
                  /\ i * conv.stride + k <= sx[3] + 2 * p
                  /\ j * conv.stride + k <= sx[4] + 2 * p
                  /\ c.regions[i][j] = <<k, k>>
            /\ DOMAIN c.regions = DOMAIN c.output[0][0]
            /\ DOMAIN c.regions[0] = DOMAIN c.output[0][0][0]
            /\ Shape4(c.x_padded) = <<sx[1], sx[2], sx[3] + 2 * p, sx[4] + 2 * p>>
            /\ \A b \in Range(sx[1]) : \A ic \in Range(sx[2]) :
               \A r \in Range(sx[3] + 2 * p) : \A q \in Range(sx[4] + 2 * p) :
                  c.x_padded[b][ic][r][q]
                    = IF r < p \/ r >= p + sx[3] \/ q < p \/ q >= p + sx[4]
                      THEN 0 ELSE c.x[b][ic][r - p][q - p]
            /\ (p = 0 => c.x_padded = c.x)

\* A call with padding whose last window ends exactly at the last padded row
\* and whose last column window stops short of the last padded column.
C10_Witness ==
    \E n \in 1 .. Len(conv_call) :
        LET c  == conv_call[n]
            so == Shape4(c.output)
        IN  /\ conv.padding >= 1 /\ conv.stride >= 2 /\ conv.kernel_size >= 2
            /\ so[3] >= 2
            /\ (so[3] - 1) * conv.stride + conv.kernel_size = CallH(c) + 2 * conv.padding
            /\ (so[4] - 1) * conv.stride + conv.kernel_size < CallW(c) + 2 * conv.padding
            /\ c.x[0][0][0][0] # 0

\* -------------------------------------------------- claims: MyBatchNorm2d

RECURSIVE FlatSum(_, _, _)
\* The sum of the first n values of channel c, the batch read in row-major order.
FlatSum(x, c, n) ==
    IF n = 0 THEN 0
    ELSE LET H == Dim(x[0][c])
             W == Dim(x[0][c][0])
             m == n - 1
         IN  FlatSum(x, c, n - 1) + x[m \div (H * W)][c][(m % (H * W)) \div W][m % W]

RECURSIVE FlatSumSq(_, _, _)
\* The sum of the squares of the first n values of channel c.
FlatSumSq(x, c, n) ==
    IF n = 0 THEN 0
    ELSE LET H == Dim(x[0][c])
             W == Dim(x[0][c][0])
             m == n - 1
             v == x[m \div (H * W)][c][(m % (H * W)) \div W][m % W]
         IN  FlatSumSq(x, c, n - 1) + v * v

\* The population mean of channel c over batch, height and width: S / N.
PopMean(x, c) == Rat(FlatSum(x, c, ChannelCount(x)), ChannelCount(x))

\* The population variance of channel c: (N * sum of squares - S^2) / N^2.
PopVar(x, c) ==
    LET N == ChannelCount(x)
        S == FlatSum(x, c, N)
    IN  Rat(N * FlatSumSq(x, c, N) - S * S, N * N)

\* Whether this step is a call of forward.
IsBNCall == Len(bn_hist') = Len(bn_hist) + 1

\* C3: in evaluation mode forward leaves running_mean and running_var
\* unchanged, and its output is computed from those stored values.
C3_EvalFrozen ==
    [][(IsBNCall /\ ~bn.training) =>
          /\ bn'.running_mean = bn.running_mean
          /\ bn'.running_var = bn.running_var
          /\ bn' = bn
          /\ \A b \in DOMAIN bn_call'[1].x : \A c \in DOMAIN bn.gamma :
             \A i \in DOMAIN bn_call'[1].x[b][c] : \A j \in DOMAIN bn_call'[1].x[b][c][i] :
                bn_call'[1].output[b][c][i][j]
                  = Activation(RMul(bn.gamma[c],
                                    RSub(RInt(bn_call'[1].x[b][c][i][j]), bn.running_mean[c])),
                               bn.running_var[c], bn.eps, bn.beta[c])]_vars

\* An evaluation-mode call after a training call has moved the running
\* statistics, on a batch whose statistics differ from the stored ones.
C3_Witness ==
    /\ Len(bn_call) = 1
    /\ ~bn_call[1].before.training
    /\ bn.running_mean[0] # RZero
    /\ bn.running_var[0] # ROne
    /\ bn = bn_call[1].after
    /\ PopMean(bn_call[1].x, 0) # bn.running_mean[0]
    /\ PopVar(bn_call[1].x, 0) # bn.running_var[0]
    /\ bn_call[1].output[0][0][0][0].coef # RZero

RECURSIVE FoldRunning(_, _, _, _, _)
\* The running statistic after the first n calls of the history: each
\* training call replaces old by old + momentum * (stat - old), where stat
\* is Stat(x, c) of that call's batch.
FoldRunning(Stat(_, _), init, momentum, c, n) ==
    IF n = 0 THEN init
    ELSE LET old == FoldRunning(Stat, init, momentum, c, n - 1)
         IN  IF bn_hist[n].training
             THEN RAdd(old, RMul(momentum, RSub(Stat(bn_hist[n].x, c), old)))
             ELSE old

\* C4: a training-mode call replaces, per channel, running_mean by
\* (1 - momentum) * old + momentum * batch_mean and running_var by
\* (1 - momentum) * old + momentum * batch_var, batch_mean and batch_var the
\* population mean and variance over batch, height and width; from
\* running_mean = 0 and running_var = 1 the buffers after n training calls
\* are the n-fold application of this update.
C4_RunningStats ==
    \A c \in DOMAIN bn.gamma :
        /\ bn.running_mean[c] = FoldRunning(PopMean, RZero, bn.momentum, c, Len(bn_hist))
        /\ bn.running_var[c] = FoldRunning(PopVar, ROne, bn.momentum, c, Len(bn_hist))

\* Two training calls on batches of different statistics, the later one of
\* at least two images.
C4_Witness ==
    /\ Len(bn_hist) >= 2
    /\ bn_hist[1].training /\ bn_hist[2].training
    /\ Dim(bn_hist[2].x) >= 2
    /\ PopMean(bn_hist[1].x, 0) # PopMean(bn_hist[2].x, 0)
    /\ PopVar(bn_hist[1].x, 1) # PopVar(bn_hist[2].x, 1)
    /\ PopVar(bn_hist[2].x, 0) # RZero
    /\ bn.running_mean[0] # bn.running_mean[1]

\* C5: in evaluation mode the output for an image depends only on that
\* image, the running statistics and gamma, beta, eps: any batch holding the
\* same image, at any position and beside any other images, gives that image
\* the same output under the same statistics and parameters, and repeating
\* the call gives the same result.
C5_EvalBatchIndependent ==
    \A n \in 1 .. Len(bn_call) :
        LET c == bn_call[n]
        IN  ~c.before.training =>
              /\ \A other \in BNInputs : \A i \in DOMAIN c.x : \A j \in DOMAIN other :
                    c.x[i] = other[j] =>
                       MyBatchNorm2d_forward(c.before, other).output[j] = c.output[i]
              /\ MyBatchNorm2d_forward(c.after, c.x).output = c.output

\* An evaluation-mode call on a batch of two different images, after a
\* training call, with trained gamma and beta.
C5_Witness ==
    /\ Len(bn_call) = 1
    /\ ~bn_call[1].before.training
    /\ Dim(bn_call[1].x) = 2
    /\ bn_call[1].x[0] # bn_call[1].x[1]
    /\ bn_call[1].before.running_mean[0] # RZero
    /\ bn_call[1].before.gamma = TrainedGamma
    /\ PopMean(bn_call[1].x, 0) # bn_call[1].before.running_mean[0]

\* Other values of the running statistics.
OtherRunning ==
    { [mean |-> [c \in Range(2) |-> RZero], var |-> [c \in Range(2) |-> ROne]],
      [mean |-> [c \in Range(2) |-> <<3, 2>>], var |-> [c \in Range(2) |-> <<1, 4>>]] }

\* C6: in training mode forward normalises with the batch's per-channel mean
\* and population variance, not the running statistics: the output is
\* gamma * (x - batch_mean)/sqrt(batch_var + eps) + beta per channel, the same
\* for any prior running_mean and running_var.
C6_TrainUsesBatchStats ==
    \A n \in 1 .. Len(bn_call) :
        LET c == bn_call[n]
        IN  c.before.training =>
              /\ \A b \in DOMAIN c.x : \A ch \in DOMAIN c.before.gamma :
                 \A i \in DOMAIN c.x[b][ch] : \A j \in DOMAIN c.x[b][ch][i] :
                    c.output[b][ch][i][j]
                      = Activation(RMul(c.before.gamma[ch],
                                        RSub(RInt(c.x[b][ch][i][j]), PopMean(c.x, ch))),
                                   PopVar(c.x, ch), c.before.eps, c.before.beta[ch])
              /\ \A r \in OtherRunning :
                    MyBatchNorm2d_forward(
                        [c.before EXCEPT !.running_mean = r.mean, !.running_var = r.var],
                        c.x).output = c.output

\* A training-mode call on two different images, with trained gamma and
\* beta, when the running statistics differ from the batch's.
C6_Witness ==
    /\ Len(bn_call) = 1
    /\ bn_call[1].before.training
    /\ Dim(bn_call[1].x) = 2
    /\ bn_call[1].x[0] # bn_call[1].x[1]
    /\ bn_call[1].before.gamma = TrainedGamma
    /\ bn_call[1].before.running_mean[0] # RZero
    /\ bn_call[1].before.running_mean[0] # PopMean(bn_call[1].x, 0)
    /\ bn_call[1].before.running_var[0] # PopVar(bn_call[1].x, 0)

\* ------------------------------------------------- claims on the network

\* The shape of the batch held by x in MyCNN.forward.
XShape == Shape4(net_x)

\* C7: for the network as constructed and 28 x 28 single-channel images, the
\* convolution gives [B, 8, 14, 14], the pooling [B, 8, 7, 7], and the
\* flattened row of every image has the width 8 * 7 * 7 = 392 that the linear
\* layer accepts, so no call raises, for every batch size.
C7_FlatWidth ==
    /\ net_pc # "raised"
    /\ net_pc \in {"bn", "relu", "pool"} =>
          XShape = <<Dim(net_in), NetOutChannels, 14, 14>>
    /\ net_pc = "view" => XShape = <<Dim(net_in), NetOutChannels, 7, 7>>
    /\ net_pc = "fc" =>
          /\ Dim(net_x) = Dim(net_in)
          /\ \A b \in DOMAIN net_x :
                /\ Dim(net_x[b]) = 392
                /\ Dim(net_x[b]) = Dim(fc.weight[0])
    /\ net_pc = "done" => /\ Dim(net_x) = Dim(net_in)
                          /\ \A b \in DOMAIN net_x : Dim(net_x[b]) = FcOutFeatures

\* A batch of two images has been flattened.
C7_Witness ==
    /\ net_pc = "fc"
    /\ Dim(net_in) = 2
    /\ Dim(net_x[1]) = 392

\* The batch of one all-zero image [1, 1, 28, 28].
ZeroBatch == [b \in Range(1) |-> NetImage(0)]

\* The network holds the values of construction: conv bias 0, gamma 1,
\* beta 0, running_mean 0, running_var 1.
Untrained ==
    /\ \A oc \in DOMAIN conv.bias : conv.bias[oc] = 0
    /\ \A c \in DOMAIN bn.gamma :
          /\ bn.gamma[c] = ROne
          /\ bn.beta[c] = RZero
          /\ bn.running_mean[c] = RZero
          /\ bn.running_var[c] = ROne

\* C8: in a forward pass of the untrained network on the batch of one
\* all-zero image, in training and in evaluation mode, the convolution
\* output is the conv bias at every position, and each of the 10 logits is
\* the linear layer's bias: its rational part is fc.bias[o] and no
\* 1 / sqrt(var + eps) term has a coefficient other than zero.
C8_BiasOnly ==
    net_in = ZeroBatch =>
       /\ net_pc = "bn" =>
             /\ Untrained
             /\ XShape = <<1, NetOutChannels, 14, 14>>
             /\ \A oc \in DOMAIN net_x[0] : \A i \in DOMAIN net_x[0][oc] :
                   \A j \in DOMAIN net_x[0][oc][i] : net_x[0][oc][i][j] = conv.bias[oc]
       /\ net_pc = "done" =>
             /\ DOMAIN net_x[0] = Range(10)
             /\ \A o \in DOMAIN net_x[0] :
                   /\ net_x[0][o].rat = RInt(fc.bias[o])
                   /\ \A c \in DOMAIN net_x[0][o].surd : net_x[0][o].surd[c] = RZero

\* The pass on the zero image has returned in training mode, for conv
\* weights that are not zero and a linear bias that is not zero.
C8_Witness ==
    /\ net_in = ZeroBatch
    /\ net_pc = "done"
    /\ bn.training
    /\ conv.weight[0][0][0][0] # 0
    /\ fc.bias[3] # 0

\* ------------------------------------------- claims on the training loop

RECURSIVE SumSeq(_)
SumSeq(q) == IF q = <<>> THEN 0 ELSE q[1] + SumSeq(Tail(q))

\* The epochs whose last statement has run.
EpochsDone == IF tl_pc \in {"for_epoch", "done"} THEN epoch_it ELSE epoch_it - 1

\* The training loop between two statements: what it has done so far.
C9_LoopInvariant ==
    /\ tl_pc = "done" =>
          /\ epoch_it = Epochs
          /\ counts = [train |-> 50, step |-> 50 * loader, loss_prints |-> 50 * loader,
                       epoch_prints |-> 50]
    /\ tl_pc \notin {"for_epoch", "done", "train"} =>
          /\ bn.training
          /\ counts.train = epoch_it
    /\ counts.epoch_prints = EpochsDone
    /\ tl_pc \in {"iter", "for_batch", "print_epoch"} =>
          /\ total_loss = SumSeq(epoch_losses)
          /\ counts.step = (epoch_it - 1) * loader + Len(epoch_losses)
          /\ counts.loss_prints = counts.step
    /\ tl_pc = "for_batch" =>
          /\ Len(epoch_losses) = batch_it
          /\ batch_it > 0 => ops = BatchOps
    /\ tl_pc \in {"to_device", "forward", "loss", "print", "zero_grad", "backward",
                  "step", "add"} =>
          /\ ops = SubSeq(BatchOps, 1, Len(ops))
          /\ tl_pc = "to_device" => ops = <<>>
          /\ tl_pc # "to_device" => tl_pc = BatchOps[Len(ops) + 1]
          /\ tl_pc = "print" => counts.loss_prints = counts.step
    /\ tl_pc = "for_epoch" /\ epoch_it > 0 =>
          /\ Len(epoch_losses) = loader
          /\ printed = <<[kind |-> "epoch", epoch |-> epoch_it,
                          value |-> SumSeq(epoch_losses)]>>
          /\ counts.step = epoch_it * loader
          /\ counts.loss_prints = epoch_it * loader

\* C9: the training loop ends, after exactly 50 epochs whatever the
\* losses are; every epoch sets training mode first; every batch runs
\* forward, loss, print, zero_grad, backward, step once in that order, 50 * B
\* updates in all; one loss is printed per batch and one cumulative loss per
\* epoch, after its last batch, the sum of the losses of that epoch alone.
C9_TrainingLoop == [] C9_LoopInvariant /\ <>(tl_pc = "done")

\* The second epoch has printed its cumulative loss, after a first epoch of
\* two batches whose losses were not zero.
C9_Witness ==
    /\ tl_pc = "for_epoch"
    /\ epoch_it = 2
    /\ loader = 2
    /\ counts.step = 4
    /\ printed = <<[kind |-> "epoch", epoch |-> 2, value |-> 1]>>
    /\ epoch_losses = <<0, 1>>

====
